---- MODULE Spec2Model ----
(***************************************************************************)
(* docker-runner: one agent process that keeps one named container on the  *)
(* latest build of an image.  The model follows the runtime-API variant    *)
(* (src/unnamed/part_000): main(), check(), pullImage(), stopContainer(),  *)
(* removeContainer(), runImage(), removeOldImages() and the webhook        *)
(* middleware of listenImagePush().  Every `await` / `yield` of the source *)
(* is one step of the process that executes it, so that concurrent webhook *)
(* requests interleave exactly where the event loop lets them.  The        *)
(* activations (main() and one per webhook POST being handled) are kept as *)
(* a bag of records: activations have no identity beyond their state.      *)
(*                                                                         *)
(* Strings are sequences of tokens (":" is a token of its own), so that    *)
(* indexOf / substr / concatenation are computed, not assumed.             *)
(***************************************************************************)
EXTENDS Integers, Sequences, FiniteSets, Bags, TLC

\* ------------------------------------------------------------------ bounds
\* number of HTTP requests the listener receives (each webhook POST gets its
\* own middleware activation; the activations may overlap)
MaxRequests == 2
\* number of new builds of the image that reach the registry after start
MaxPushes == 2

\* the value of `image && image.Id` / `container && container.Id` when
\* find() found nothing (ids given by the runtime are >= 1)
Undefined == 0

\* ------------------------------------------------------------------ strings
WEBHOOK_URL == <<"/v1/docker-images/push">>

\* String.prototype.indexOf(c): 0-based index of the first c, -1 when absent
IndexOf(s, c) ==
    IF \E i \in 1..Len(s) : s[i] = c
    THEN (CHOOSE i \in 1..Len(s) : s[i] = c /\ \A j \in 1..(i - 1) : s[j] # c) - 1
    ELSE -1

\* String.prototype.substr(start, length)
Substr(s, start, length) == SubSeq(s, start + 1, start + length)

\* Array.prototype.includes
Includes(list, x) == \E k \in 1..Len(list) : list[k] = x

\* the marker the runtime lists for an image without repository/tag
NoneTag == <<"<none>", ":", "<none>">>

\* ---------------------------------------------------------------- variables
VARIABLES
    options,     \* the parsed command line (never assigned after start)
    images,      \* the runtime's images: records [Id, RepoTags]
    containers,  \* the runtime's containers: records [Id, Names, Running]
    builds,      \* number of builds of the ref pulled so far (build ids 1..builds)
    nextCid,     \* the id the runtime gives to the next created container
    listening,   \* app.listen() has been called
    acts,        \* the bag of activations: main() and the webhook middleware runs
    received,    \* number of HTTP requests received so far
    response,    \* the last answered request, with its response and callback
    hash,        \* determineImagePort: hash.substr(0, 4), as hex digit values
    port         \* the port computed by listenImagePush (0: none yet)

vars == <<options, images, containers, builds, nextCid, listening, acts,
          received, response, hash, port>>

\* An activation is a record
\*   who        "main" or "hook"
\*   pc         the await / yield it is suspended at
\*   previousId pullImage: let previousId
\*   changed    the value pullImage() returned to check(): "yes", "no", or
\*              "unknown" while it has not returned
\*   cid        stop/remove/main: let id; runImage: let container
\*   gcImages   removeOldImages: let images (after the filter), as ids
\*   gcIndex    removeOldImages: position of the for-of loop
\*   err        the error caught or pending: "none", "runtime" (a runtime
\*              call rejected) or "config" (runImage's detach check)
\*   failed     the runtime call whose rejection was thrown ("none" if none)
\*   pulled     docker.pull() has been called
\*   residue    a stop or remove of the old container succeeded and no start
\*              of a replacement has succeeded since
\*   req        the request being handled (NoRequest for main)

\* ------------------------------------------------------------ configuration
\* image refs given on the command line: with a tag, and without one
ImageRefs == {<<"app", ":", "v1">>, <<"app">>}
\* --name
ContainerName == <<"web">>
\* --restart lists (nomnom leaves the option undefined when the flag is not
\* given; `options.restart && options.restart.includes(x)` is then falsy,
\* which the empty list models)
RestartLists == {<<>>, <<"always", "image-push">>}

\* repository.repo_name values of incoming payloads
RepoNames == {<<"app">>, <<"app", ":", "v1">>, <<"other">>}

\* ------------------------------------------------------------ pure helpers
\* function getImageName()
getImageName ==
    LET name == options.image
        index == IndexOf(name, ":")
    IN  IF index # -1 THEN Substr(name, 0, index) ELSE name

\* the reference the runtime pulls and tags for docker.pull(options.image):
\* a reference without a tag is completed with ":latest"
PullRef ==
    IF IndexOf(options.image, ":") = -1
    THEN options.image \o <<":", "latest">>
    ELSE options.image

\* async function getImageId(): images.find(RepoTags.includes(options.image))
getImageId ==
    LET found == {i \in images : Includes(i.RepoTags, options.image)}
    IN  IF found = {} THEN Undefined
        ELSE (CHOOSE i \in found : \A j \in found : i.Id <= j.Id).Id

\* async function getContainerId(name): Names.includes('/' + name)
getContainerId(name) ==
    LET found == {c \in containers : (<<"/">> \o name) \in c.Names}
    IN  IF found = {} THEN Undefined
        ELSE (CHOOSE c \in found : \A d \in found : c.Id <= d.Id).Id

\* crypto.createHash('md5').update(options.image).digest('hex').substr(0, 4)
\* for the refs of ImageRefs: md5("app:v1") = 3790..., md5("app") = d2a5...
Md5Hex4(image) ==
    IF image = <<"app", ":", "v1">> THEN <<"3", "7", "9", "0">>
    ELSE <<"d", "2", "a", "5">>

\* the digits of a hex digest
HexDigits ==
    <<"0", "1", "2", "3", "4", "5", "6", "7", "8", "9", "a", "b", "c", "d",
      "e", "f">>

HexValue(d) == (CHOOSE i \in 1..Len(HexDigits) : HexDigits[i] = d) - 1

\* parseInt('0x' + digits, 16): the prefix is skipped, the hex digits are
\* read from the left
RECURSIVE ParseInt16(_)
ParseInt16(digits) ==
    IF digits = <<>> THEN 0
    ELSE IF Head(digits) = "0x" THEN ParseInt16(Tail(digits))
    ELSE ParseInt16(SubSeq(digits, 1, Len(digits) - 1)) * 16
             + HexValue(digits[Len(digits)])

\* a mapping with the modulus of the whole 15-bit range
PortOf_WideModulus(value) == (value % 32768) + 49152

\* port = port % 16384 + 49152
PortOf(value) == (value % 16384) + 49152

\* function determineImagePort()
determineImagePort == PortOf(ParseInt16(<<"0x">> \o hash))

\* a filter that takes every image not carrying the configured ref for old
IsDangling_NotCurrent(image) == ~Includes(image.RepoTags, options.image)

\* removeOldImages: the filter _.isEqual(image.RepoTags, ['<none>:<none>'])
IsDangling(image) == image.RepoTags = <<NoneTag>>

\* ascending list of a finite set of ids (the order of docker.listImages())
RECURSIVE SortedSeq(_)
SortedSeq(S) ==
    IF S = {} THEN <<>>
    ELSE LET m == CHOOSE x \in S : \A y \in S : x <= y
         IN  <<m>> \o SortedSeq(S \ {m})

\* removeOldImages: images.filter(...) as the list of ids the loop visits
DanglingIds == SortedSeq({i.Id : i \in {j \in images : IsDangling(j)}})

\* the runtime's image store after a completed pull of build `rid`: the
\* build carries the pulled reference, whatever carried it before loses it
Pulled(rid) ==
    LET untag(i) ==
            IF Includes(i.RepoTags, PullRef)
            THEN [i EXCEPT !.RepoTags =
                     IF Len(@) = 1 THEN <<NoneTag>>
                     ELSE SelectSeq(@, LAMBDA t : t # PullRef)]
            ELSE i
    IN  {untag(i) : i \in {j \in images : j.Id # rid}}
            \cup {[Id |-> rid, RepoTags |-> <<PullRef>>]}

\* ---------------------------------------------------------------- initially
\* images the runtime holds that are unrelated to the configured ref, and a
\* dangling image left by an earlier deployment
OtherImage == [Id |-> 90, RepoTags |-> <<<<"db", ":", "1">>, <<"db", ":", "2">>>>]
OldImage == [Id |-> 91, RepoTags |-> <<NoneTag>>]
OtherContainer == [Id |-> 1, Names |-> {<<"/", "db">>}, Running |-> TRUE]

NoRequest == [method |-> "", url |-> <<>>, repo_name |-> <<>>]

\* response: the request answered last, with
\*   status    this.status
\*   callback  the state of the body posted to callback_url ("none": no post)
\*   posts     the number of POSTs issued to callback_url for the request
\*   delivery  "sent" once request(...) was called, "failed" once its
\*             completion function was called with an error and logged it
\*   residue   LeftResidue of the activation that was answered
NoResponse ==
    [req |-> NoRequest, status |-> 0, callback |-> "none", residue |-> FALSE,
     posts |-> 0, delivery |-> "none"]

\* a coroutine that is about to enter check()
NewActivation(who, request) ==
    [who |-> who, pc |-> "pull_prev", previousId |-> Undefined,
     changed |-> "unknown", cid |-> Undefined, gcImages |-> <<>>,
     gcIndex |-> 1, err |-> "none", failed |-> "none", pulled |-> FALSE,
     residue |-> FALSE, req |-> request]

Init ==
    /\ options \in [image : ImageRefs, name : {ContainerName},
                    detach : BOOLEAN, restart : RestartLists]
    /\ \E local \in BOOLEAN :
          /\ builds = IF local THEN 1 ELSE 0
          /\ images = {OtherImage, OldImage} \cup
                   (IF local THEN {[Id |-> 1, RepoTags |-> <<PullRef>>]} ELSE {})
    /\ \E st \in {"absent", "stopped", "running"} :
          containers = {OtherContainer} \cup
              (IF st = "absent" THEN {}
               ELSE {[Id |-> 2, Names |-> {<<"/">> \o options.name},
                      Running |-> (st = "running")]})
    /\ nextCid = 3
    /\ listening = FALSE
    /\ acts = SetToBag({NewActivation("main", NoRequest)})
    /\ received = 0
    /\ response = NoResponse
    /\ hash = Md5Hex4(options.image)
    /\ port = 0

\* ------------------------------------------------------ control-flow helpers
Activations == BagToSet(acts)

\* activation a continues as b
Becomes(a, b) == acts' = (acts (-) SetToBag({a})) (+) SetToBag({b})

\* where an exception thrown inside check() lands: in the webhook middleware
\* the try/catch around `yield check()`; in main() the promise rejects and
\* main().catch() logs it
Catch(a) == IF a.who = "main" THEN "crashed" ELSE "respond"

\* where control continues when check() returns normally
Return(a) == IF a.who = "main" THEN "main_find" ELSE "respond"

\* a check() that replaces the container whatever pullImage() returned
CheckBranch_Unconditional(isChanged) == "stop_find"

\* check(): `if (await pullImage()) { ... }`
CheckBranch(isChanged) == IF isChanged THEN "stop_find" ELSE "return"

\* a main() that never runs the image itself
MainBranch_Skip(id) == "main_listen"

\* a main() that runs the image whatever it found
MainBranch_Always(id) == "main_create"

\* main(): `if (!id) await runImage();`
MainBranch(id) == IF id = Undefined THEN "main_create" ELSE "main_listen"

\* a comparison that takes an image absent before the pull for unchanged
IdChanged_IgnoreAbsent(currentId, previousId) ==
    previousId # Undefined /\ currentId # previousId

\* pullImage(): `return currentId !== previousId;`
IdChanged(currentId, previousId) == currentId # previousId

\* a stopContainer() that stops whatever it inspected
StopBranch_Always(running) == "stop_stop"

\* stopContainer(): `if (!output.State.Running) return; await container.stop();`
StopBranch(running) == IF running THEN "stop_stop" ELSE "rm_find"

\* a comparison against the whole ref instead of getImageName()
IsOtherImage_WholeRef(repoName) == repoName # options.image

\* the middleware's comparison `repoName !== name`
IsOtherImage(repoName) == repoName # getImageName

\* a middleware that lets the error of the pass decide the status
ResponseStatus_FromError(error) ==
    IF error \in {"runtime", "config"} THEN 500 ELSE 204

\* the middleware's `this.status = 204`
ResponseStatus(error) == 204

\* the middleware's `{ state: (err ? 'error' : 'success') }`
CallbackState(error) == IF error # "none" THEN "error" ELSE "success"

At(a, label) == [a EXCEPT !.pc = IF label = "return" THEN Return(a) ELSE label]

\* activation a has issued the runtime call `call`, which succeeded (ok) or
\* was rejected
Called(a, call, ok) ==
    [a EXCEPT !.pulled = @ \/ call = "pull",
              !.failed = IF ok THEN @ ELSE call,
              !.residue = IF ok /\ call \in {"stop", "remove"} THEN TRUE
                          ELSE IF ok /\ call = "start" THEN FALSE
                          ELSE @]

\* activation a, having got as far as b, throws: the exception leaves check()
Throw(a, b, error) ==
    /\ Becomes(a, [b EXCEPT !.err = error, !.pc = Catch(a)])
    /\ UNCHANGED <<options, hash, port, images, containers, builds, nextCid, listening,
                   received, response>>

\* a rejected pull taken for "nothing new": pullImage() returns false
Fail_PullAsUnchanged(a, call) ==
    IF call = "pull"
    THEN /\ Becomes(a, [At(Called(a, call, FALSE), "return")
                          EXCEPT !.changed = "no"])
         /\ UNCHANGED <<options, hash, port, images, containers, builds,
                        nextCid, listening, received, response>>
    ELSE Throw(a, Called(a, call, FALSE), "runtime")

\* a runtime call of activation a rejects
Fail(a, call) == Throw(a, Called(a, call, FALSE), "runtime")

\* the activation is over: its locals are gone
Finished(a, label) ==
    [NewActivation(a.who, NoRequest) EXCEPT !.pc = label]

\* ---------------------------------------------------------------- pullImage
\* let previousId = await getImageId();
PullPrevious(a) ==
    /\ a.pc = "pull_prev"
    /\ \/ Fail(a, "listImages")
       \/ /\ Becomes(a, [At(Called(a, "listImages", TRUE), "pull_pull")
                           EXCEPT !.previousId = getImageId])
          /\ UNCHANGED <<options, hash, port, images, containers, builds, nextCid,
                         listening, received, response>>

\* let stream = await docker.pull(options.image, opts);
\* await awaitStream(stream);
\* The pull either rejects, or its progress stream ends with an error, or it
\* completes; when it completes the store holds the build the registry serves:
\* the build pulled last, or a newer one pushed since (an empty store always
\* receives a build).
PullPull(a) ==
    /\ a.pc = "pull_pull"
    /\ \/ Fail(a, "pull")
       \/ Throw(a, Called(Called(a, "pull", TRUE), "followProgress", FALSE),
                "runtime")
       \/ \E fresh \in BOOLEAN :
              /\ fresh => builds < 1 + MaxPushes
              /\ ~fresh => builds > 0
              /\ LET rid == IF fresh THEN builds + 1 ELSE builds
                 IN  /\ images' = Pulled(rid)
                     /\ builds' = rid
              /\ Becomes(a, At(Called(Called(a, "pull", TRUE),
                                      "followProgress", TRUE), "pull_cur"))
              /\ UNCHANGED <<options, hash, port, containers, nextCid, listening,
                             received, response>>

\* let currentId = await getImageId(); return currentId !== previousId;
\* and the branch of check() on the value returned (pullImage's locals end
\* with the call)
PullCurrent(a) ==
    /\ a.pc = "pull_cur"
    /\ \/ Fail(a, "listImages")
       \/ LET currentId == getImageId
              result == IdChanged(currentId, a.previousId)
          IN  /\ Becomes(a, [At(Called(a, "listImages", TRUE), CheckBranch(result))
                               EXCEPT !.changed = IF result THEN "yes" ELSE "no",
                                      !.previousId = Undefined])
              /\ UNCHANGED <<options, hash, port, images, containers, builds, nextCid,
                             listening, received, response>>

\* ------------------------------------------------------------ stopContainer
\* let id = await getContainerId(options.name); if (!id) return;
StopFind(a) ==
    /\ a.pc = "stop_find"
    /\ \/ Fail(a, "listContainers")
       \/ LET id == getContainerId(options.name)
          IN  /\ Becomes(a, [At(Called(a, "listContainers", TRUE),
                                IF id = Undefined THEN "rm_find" ELSE "stop_inspect")
                               EXCEPT !.cid = id])
              /\ UNCHANGED <<options, hash, port, images, containers, builds, nextCid,
                             listening, received, response>>

\* let output = await container.inspect(); if (!output.State.Running) return;
StopInspect(a) ==
    /\ a.pc = "stop_inspect"
    /\ \/ Fail(a, "inspect")
       \/ \E c \in containers :
              /\ c.Id = a.cid
              /\ Becomes(a, At(Called(a, "inspect", TRUE), StopBranch(c.Running)))
              /\ UNCHANGED <<options, hash, port, images, containers, builds, nextCid,
                             listening, received, response>>

\* await container.stop();   (the runtime rejects the stop of a container
\* that is gone or not running)
StopStop(a) ==
    /\ a.pc = "stop_stop"
    /\ \/ Fail(a, "stop")
       \/ \E c \in containers :
              /\ c.Id = a.cid
              /\ c.Running
              /\ containers' = (containers \ {c}) \cup {[c EXCEPT !.Running = FALSE]}
              /\ Becomes(a, At(Called(a, "stop", TRUE), "rm_find"))
              /\ UNCHANGED <<options, hash, port, images, builds, nextCid, listening,
                             received, response>>

\* ---------------------------------------------------------- removeContainer
\* let id = await getContainerId(options.name); if (!id) return;
RemoveFind(a) ==
    /\ a.pc = "rm_find"
    /\ \/ Fail(a, "listContainers")
       \/ LET id == getContainerId(options.name)
          IN  /\ Becomes(a, [At(Called(a, "listContainers", TRUE),
                                IF id = Undefined THEN "run_create" ELSE "rm_remove")
                               EXCEPT !.cid = id])
              /\ UNCHANGED <<options, hash, port, images, containers, builds, nextCid,
                             listening, received, response>>

\* await container.remove();   (the runtime rejects the removal of a
\* container that is gone or running)
RemoveRemove(a) ==
    /\ a.pc = "rm_remove"
    /\ \/ Fail(a, "remove")
       \/ \E c \in containers :
              /\ c.Id = a.cid
              /\ ~c.Running
              /\ containers' = containers \ {c}
              /\ Becomes(a, At(Called(a, "remove", TRUE), "run_create"))
              /\ UNCHANGED <<options, hash, port, images, builds, nextCid, listening,
                             received, response>>

\* ----------------------------------------------------------------- runImage
\* if (!options.detach) throw new Error('non detached mode is unsupported');
\* let container = await docker.createContainer(createOptions);
\* (the runtime rejects a name that a container already carries)
RunCreate(a, here, next) ==
    /\ a.pc = here
    /\ IF ~options.detach
       THEN Throw(a, a, "config")
       ELSE \/ Fail(a, "create")
            \/ /\ getContainerId(options.name) = Undefined
               /\ containers' = containers \cup
                     {[Id |-> nextCid, Names |-> {<<"/">> \o options.name},
                       Running |-> FALSE]}
               /\ nextCid' = nextCid + 1
               /\ Becomes(a, [At(Called(a, "create", TRUE), next)
                                EXCEPT !.cid = nextCid])
               /\ UNCHANGED <<options, hash, port, images, builds, listening, received,
                              response>>

\* await container.start(startOptions);   (runImage's locals end with it)
RunStart(a, here, next) ==
    /\ a.pc = here
    /\ \/ Fail(a, "start")
       \/ \E c \in containers :
              /\ c.Id = a.cid
              /\ ~c.Running
              /\ containers' = (containers \ {c}) \cup {[c EXCEPT !.Running = TRUE]}
              /\ Becomes(a, [At(Called(a, "start", TRUE), next)
                               EXCEPT !.cid = Undefined])
              /\ UNCHANGED <<options, hash, port, images, builds, nextCid, listening,
                             received, response>>

\* a check() that goes on to removeOldImages() once the container is created
CheckCreate_SkipStart(a) == RunCreate(a, "run_create", "gc_list")

\* check(): await runImage();
CheckCreate(a) == RunCreate(a, "run_create", "run_start")
CheckStart(a) == RunStart(a, "run_start", "gc_list")

\* ---------------------------------------------------------- removeOldImages
\* let images = await docker.listImages(); images = images.filter(...)
GcList(a) ==
    /\ a.pc = "gc_list"
    /\ \/ Fail(a, "gcListImages")
       \/ /\ Becomes(a, [At(Called(a, "gcListImages", TRUE),
                            IF DanglingIds = <<>> THEN "return" ELSE "gc_remove")
                           EXCEPT !.gcImages = DanglingIds, !.gcIndex = 1])
          /\ UNCHANGED <<options, hash, port, images, containers, builds, nextCid,
                         listening, received, response>>

\* the for-of loop moves on to the next image, or ends
NextImage(a) ==
    [At(a, IF a.gcIndex = Len(a.gcImages) THEN "return" ELSE "gc_remove")
       EXCEPT !.gcIndex = @ + 1]

\* catch (err) { console.error(err); }   around the removal of one image
RemovalRejected(a) == NextImage(a)

\* for (let image of images) { try { await docker.getImage(image.Id).remove()
\* } catch (err) { console.error(err) } }
GcRemove(a) ==
    /\ a.pc = "gc_remove"
    /\ LET id == a.gcImages[a.gcIndex]
       IN  \/ /\ Becomes(a, RemovalRejected(a))
              /\ UNCHANGED images
           \/ /\ \E i \in images : i.Id = id
              /\ images' = {i \in images : i.Id # id}
              /\ Becomes(a, NextImage(a))
    /\ UNCHANGED <<options, hash, port, containers, builds, nextCid, listening, received,
                   response>>

\* --------------------------------------------------------------------- main
\* let id = await getContainerId(options.name); if (!id) await runImage();
MainFind(a) ==
    /\ a.pc = "main_find"
    /\ \/ Fail(a, "listContainers")
       \/ LET id == getContainerId(options.name)
          IN  /\ Becomes(a, [At(Called(a, "listContainers", TRUE), MainBranch(id))
                               EXCEPT !.cid = id])
              /\ UNCHANGED <<options, hash, port, images, containers, builds, nextCid,
                             listening, received, response>>

MainCreate(a) == RunCreate(a, "main_create", "main_start")
MainStart(a) == RunStart(a, "main_start", "main_listen")

\* a main() that binds the listener whatever the restart list holds
MainListen_Always(a) ==
    /\ a.pc = "main_listen"
    /\ listening' = TRUE
    /\ port' = determineImagePort
    /\ Becomes(a, Finished(a, "main_done"))
    /\ UNCHANGED <<options, hash, images, containers, builds, nextCid,
                   received, response>>

\* if (options.restart && options.restart.includes('image-push'))
\*   await listenImagePush();
MainListen(a) ==
    /\ a.pc = "main_listen"
    /\ listening' = Includes(options.restart, "image-push")
    /\ port' = IF Includes(options.restart, "image-push")
               THEN determineImagePort ELSE port
    /\ Becomes(a, Finished(a, "main_done"))
    /\ UNCHANGED <<options, hash, images, containers, builds, nextCid,
                   received, response>>

\* ------------------------------------------------------ webhook middleware
\* the activation failed after it stopped or removed the old container and
\* before it started the replacement
LeftResidue(a) == a.err # "none" /\ a.residue

\* what the middleware sends for an activation that ended with `error`: the
\* HTTP response and the callback POST (residue records LeftResidue)
Answer(request, error, residue) ==
    [req |-> request, status |-> ResponseStatus(error),
     callback |-> CallbackState(error), residue |-> residue,
     posts |-> 1, delivery |-> "sent"]

\* a completion function that posts the callback once more
OnCallbackError_Retry(resp) == [resp EXCEPT !.posts = 2, !.delivery = "failed"]

\* request(..., function(err) { if (err) console.error(err); })
OnCallbackError(resp) == [resp EXCEPT !.delivery = "failed"]

\* a request reaches the koa application.  A POST to WEBHOOK_URL whose
\* repo_name is the image name enters check(); one whose repo_name differs is
\* answered in the same turn; any other request is passed on (`yield next`,
\* which koa answers with 404).
Receive ==
    /\ listening
    /\ received < MaxRequests
    /\ received' = received + 1
    /\ \E method \in {"POST", "GET"}, url \in {WEBHOOK_URL, <<"/">>},
          repoName \in RepoNames :
          LET request == [method |-> method, url |-> url, repo_name |-> repoName]
          IN  /\ method = "POST" \/ url = WEBHOOK_URL
              /\ IF method = "POST" /\ url = WEBHOOK_URL
                 THEN IF IsOtherImage(repoName)
                      THEN /\ response' = Answer(request, "mismatch", FALSE)
                           /\ UNCHANGED acts
                      ELSE /\ acts' = acts (+) SetToBag({NewActivation("hook", request)})
                           /\ UNCHANGED response
                 ELSE /\ repoName = <<"other">>
                      /\ response' = [NoResponse EXCEPT !.req = request, !.status = 404]
                      /\ UNCHANGED acts
    /\ UNCHANGED <<options, hash, port, images, containers, builds, nextCid, listening>>

\* after `yield check()` returned or threw:
\* request({ method: 'post', url: callbackURL, body, json: true }, ...);
\* this.status = 204; return;
Respond(a) ==
    /\ a.pc = "respond"
    /\ response' = Answer(a.req, a.err, LeftResidue(a))
    /\ acts' = acts (-) SetToBag({a})
    /\ UNCHANGED <<options, hash, port, images, containers, builds, nextCid, listening,
                   received>>

\* the POST to callback_url fails: the completion function of request() is
\* called with an error
CallbackFailed ==
    /\ response.delivery = "sent"
    /\ response' = OnCallbackError(response)
    /\ UNCHANGED <<options, hash, port, images, containers, builds, nextCid,
                   listening, acts, received>>

\* ------------------------------------------------------------ specification
\* the steps of the activations
Step ==
    \/ \E a \in Activations : PullPrevious(a)
    \/ \E a \in Activations : PullPull(a)
    \/ \E a \in Activations : PullCurrent(a)
    \/ \E a \in Activations : StopFind(a)
    \/ \E a \in Activations : StopInspect(a)
    \/ \E a \in Activations : StopStop(a)
    \/ \E a \in Activations : RemoveFind(a)
    \/ \E a \in Activations : RemoveRemove(a)
    \/ \E a \in Activations : CheckCreate(a)
    \/ \E a \in Activations : CheckStart(a)
    \/ \E a \in Activations : GcList(a)
    \/ \E a \in Activations : GcRemove(a)
    \/ \E a \in Activations : MainFind(a)
    \/ \E a \in Activations : MainCreate(a)
    \/ \E a \in Activations : MainStart(a)
    \/ \E a \in Activations : MainListen(a)
    \/ \E a \in Activations : Respond(a)

Next == Step \/ Receive \/ CallbackFailed

Spec == Init /\ [][Next]_vars

\* The same program when no request arrives while another one is being
\* handled: the runs of Spec in which the webhook activations do not overlap.
Hooks == {a \in Activations : a.who = "hook"}

ReceiveAlone == Hooks = {} /\ Receive

NextSeq == Step \/ ReceiveAlone \/ CallbackFailed

SpecSeq == Init /\ [][NextSeq]_vars

\* determineImagePort() on its own: the first four hex digits of the digest
\* range over all values, and the function is applied (again and again) to
\* the same image ref.
InitPort ==
    /\ options \in [image : ImageRefs, name : {ContainerName},
                    detach : {TRUE}, restart : {<<"always", "image-push">>}]
    /\ images = {OtherImage, OldImage}
    /\ containers = {OtherContainer}
    /\ builds = 0
    /\ nextCid = 3
    /\ listening = FALSE
    /\ acts = EmptyBag
    /\ received = 0
    /\ response = NoResponse
    /\ hash \in [1..4 -> {HexDigits[i] : i \in 1..Len(HexDigits)}]
    /\ port = 0

DerivePort ==
    /\ port' = determineImagePort
    /\ UNCHANGED <<options, hash, images, containers, builds, nextCid,
                   listening, acts, received, response>>

SpecPort == InitPort /\ [][DerivePort]_vars

\* ------------------------------------------------------------- observations
\* the awaits inside check(): a reconciliation pass is in flight
PassPcs ==
    {"pull_prev", "pull_pull", "pull_cur", "stop_find", "stop_inspect",
     "stop_stop", "rm_find", "rm_remove", "run_create", "run_start",
     "gc_list", "gc_remove"}

\* the awaits of the pass after pullImage(): stop, remove, create, start and
\* garbage collection are issued from these and from nowhere else in a pass
LifecyclePcs == PassPcs \ {"pull_prev", "pull_pull", "pull_cur"}

\* check() has returned normally to its caller
Returned(a) == a.pc \in {"respond", "main_find"} /\ a.err = "none"

\* the containers that carry the configured name
Named == {c \in containers : (<<"/">> \o options.name) \in c.Names}

\* the step being taken is a step of activation a
Consumed(a) == CopiesIn(a, acts') < CopiesIn(a, acts)

\* the step being taken takes activation a on to b
StepOf(a, b) == Consumed(a) /\ CopiesIn(b, acts') > CopiesIn(b, acts)

IsWebhookPost(request) == request.method = "POST" /\ request.url = WEBHOOK_URL

\* ------------------------------------------------------------------ claims

\* C1: reconciliation passes are serialized: at every moment at most one
\* activation is inside check() (sync, stop, remove, create+start, garbage
\* collection); a second trigger executes none of its steps while another
\* pass is in flight.
C1_PassesSerialized ==
    \A a \in Activations :
        a.pc \in PassPcs =>
            /\ CopiesIn(a, acts) = 1
            /\ \A b \in Activations : b.pc \in PassPcs => b = a

\* C2: at most one container carries the configured name in every reachable
\* state, and a create for the configured name is never issued while a
\* container with that name still exists.
C2_CreateIssued ==
    /\ options.detach
    /\ \E a \in Activations :
          a.pc \in {"run_create", "main_create"} /\ Consumed(a)

C2_OneNamedContainer ==
    /\ [](Cardinality(Named) <= 1)
    /\ [][C2_CreateIssued => Named = {}]_vars

\* C3: whenever a pass in which sync reported a change returns without
\* error, exactly one container carries the configured name and it is
\* running.
C3_ReplacedAndRunning ==
    \A a \in Activations :
        (Returned(a) /\ a.changed = "yes") =>
            /\ Cardinality(Named) = 1
            /\ \A c \in Named : c.Running

\* C4: when sync reports no change, the pass is over: the activation is at
\* none of the awaits from which stop, remove, create, start or garbage
\* collection are issued, and it has stopped or removed nothing.
C4_NoChangeNoCalls ==
    \A a \in Activations :
        a.changed = "no" => (a.pc \notin LifecyclePcs /\ ~a.residue)

C4_Witness ==
    \E a \in Hooks : a.changed = "no" /\ a.pc = "respond" /\ a.err = "none"

\* C5: if a pass failed after the old container was stopped or removed and
\* before the replacement was started, the next pass in which no runtime
\* call fails ends with a container of the configured name running.
C5_RecoveryOnRetry ==
    \A a \in Hooks :
        (response.residue /\ Returned(a)) => \E c \in Named : c.Running

\* C6: a webhook POST whose repo_name differs from the image name (the ref
\* without its tag) never gets an activation that enters check(), and the
\* callback posted for it carries state "error".
C6_MismatchGuard ==
    /\ \A a \in Hooks : a.req.repo_name = getImageName
    /\ (IsWebhookPost(response.req) /\ response.req.repo_name # getImageName)
          => (response.callback = "error" /\ ~response.residue)

C6_Witness ==
    /\ IsWebhookPost(response.req)
    /\ response.req.repo_name # getImageName
    /\ response.callback = "error"

\* C7: every POST to the webhook path is answered with status 204, whether
\* the name did not match, the pass succeeded, or the pass failed.
C7_Always204 ==
    IsWebhookPost(response.req) => response.status = 204

C7_Witness ==
    /\ IsWebhookPost(response.req)
    /\ response.req.repo_name = getImageName
    /\ response.callback = "error"
    /\ response.residue
    /\ response.status = 204

\* C8: a runtime call failure aborts its pass only, in the startup pass too:
\* when image-push is configured and main() has ended on such a failure, the
\* listener is bound, so that a later webhook is received.
C8_FailureKeepsListening ==
    \A a \in Activations :
        (/\ a.who = "main"
         /\ a.pc = "crashed"
         /\ a.err = "runtime"
         /\ Includes(options.restart, "image-push")) => listening

\* C9: when the configuration error (detach not true) is raised, no pull,
\* stop, remove or create/start call has been issued to the runtime.
C9_ConfigErrorBeforeAnyCall ==
    \A a \in Activations :
        a.err = "config" => (~a.pulled /\ ~a.residue)

\* C10: garbage collection removes only images whose tag list is exactly the
\* dangling marker; the images it attempts are exactly the dangling images
\* listed, each attempted even when another removal was rejected; and a
\* rejected removal is not an error of the collection or of the pass.
C10_ListedAll ==
    \A a \in Activations :
        (a.pc = "gc_list" /\ Consumed(a)) =>
            \E b \in BagToSet(acts') :
                /\ CopiesIn(b, acts') > CopiesIn(b, acts)
                /\ \/ b.failed = "gcListImages"
                   \/ {b.gcImages[k] : k \in 1..Len(b.gcImages)} =
                          {i.Id : i \in {j \in images : j.RepoTags = <<NoneTag>>}}

C10_OnlyDanglingRemoved ==
    \A i \in images :
        (\A j \in images' : j.Id # i.Id) => i.RepoTags = <<NoneTag>>

C10_LoopCompletes ==
    \A a \in Activations :
        /\ a.failed # "removeImage"
        /\ (a.gcImages # <<>> /\ a.pc # "gc_remove") =>
              a.gcIndex = Len(a.gcImages) + 1

C10_GarbageCollection ==
    /\ []C10_LoopCompletes
    /\ [][C10_ListedAll /\ C10_OnlyDanglingRemoved]_vars

C10_Witness ==
    \E a \in Hooks :
        /\ Returned(a)
        /\ Len(a.gcImages) >= 2
        /\ a.gcIndex = Len(a.gcImages) + 1
        /\ \E k \in 1..Len(a.gcImages) : \E i \in images : i.Id = a.gcImages[k]
        /\ \E k \in 1..Len(a.gcImages) : \A i \in images : i.Id # a.gcImages[k]
        /\ OtherImage \in images

\* C12: the derived port always lies in 49152..65535, whatever the first 16
\* bits of the digest are, and deriving it again for the same image ref gives
\* the same port.
C12_PortInRange ==
    /\ [](port # 0 => port \in 49152..65535)
    /\ [][port # 0 => port' = port]_vars

C12_Witness == port = 65535 /\ hash = <<"f", "f", "f", "f">>

\* C11: when the startup sequence (the startup pass and the step that makes
\* sure the container exists) has finished without error, a container with
\* the configured name exists, whether or not the pass detected a change.
C11_ContainerAfterStartup ==
    \A a \in Activations :
        (a.who = "main" /\ a.pc \in {"main_listen", "main_done"} /\ received = 0)
            => Named # {}

C11_Witness ==
    \E a \in Activations :
        /\ a.who = "main"
        /\ a.pc = "main_listen"
        /\ a.changed = "no"
        /\ nextCid = 4
        /\ \E c \in Named : c.Id = 3 /\ c.Running

\* C20: the startup sequence creates a container at most once; main() issues
\* its own create only when no container with the configured name is listed
\* after the startup pass (hence never after a pass that replaced the
\* container), and the only container it starts is the one it just created:
\* an existing stopped container is left as it is.
C20_EnsureStep ==
    \A a \in Activations :
        (a.who = "main" /\ Consumed(a)) =>
            /\ (a.pc = "main_find" /\ Named # {}) =>
                  /\ containers' = containers
                  /\ \A b \in BagToSet(acts') :
                        b.pc \notin {"main_create", "main_start"}
            /\ a.pc = "main_create" => (Named = {} /\ a.changed = "no")
            /\ a.pc = "main_start" =>
                  (nextCid = 4 /\ a.cid = 3 /\ Cardinality(Named) = 1)

C20_CreateAtMostOnce ==
    /\ [](received = 0 => nextCid <= 4)
    /\ [][C20_EnsureStep]_vars

C20_Witness ==
    \E a \in Activations :
        /\ a.who = "main"
        /\ a.pc = "main_listen"
        /\ nextCid = 3
        /\ \E c \in Named : ~c.Running

\* C13: a pass in which sync reported a change issues its mutations in the
\* order stop (if running), remove, create, start, garbage collection: every
\* step of the pass leads to the next stage only, create follows the removal
\* stage, start follows a create that succeeded, garbage collection follows
\* a start that succeeded; a step that raises an error ends the pass at once
\* with the error at the caller of check().
C13_Stage(a, b) ==
    /\ b.pc = "stop_find" => a.pc = "pull_cur"
    /\ b.pc = "stop_inspect" => a.pc = "stop_find"
    /\ b.pc = "stop_stop" => a.pc = "stop_inspect"
    /\ b.pc = "rm_find" => a.pc \in {"stop_find", "stop_inspect", "stop_stop"}
    /\ b.pc = "rm_remove" => a.pc = "rm_find"
    /\ b.pc = "run_create" => a.pc \in {"rm_find", "rm_remove"}
    /\ b.pc = "run_start" => (a.pc = "run_create" /\ nextCid' = nextCid + 1)
    /\ b.pc = "gc_list" =>
          /\ a.pc = "run_start"
          /\ \E c \in containers' : c.Id = a.cid /\ c.Running
    /\ b.pc = "gc_remove" => a.pc \in {"gc_list", "gc_remove"}
    /\ (a.pc \in LifecyclePcs /\ b.pc \notin PassPcs) =>
          (b.pc = Return(a) /\ a.pc \in {"gc_list", "gc_remove"})

C13_Step ==
    \A a \in {x \in Activations : x.pc \in PassPcs /\ Consumed(x)} :
      \A b \in BagToSet(acts') :
        StepOf(a, b) =>
            IF b.err # "none"
            THEN /\ b.pc = Catch(a)
                 /\ b.pc \notin PassPcs
                 /\ b.failed # "none" \/ b.err = "config"
            ELSE C13_Stage(a, b)

C13_OrderAndAbort ==
    /\ [](\A a \in Activations :
             /\ a.err # "none" => a.pc \in {"crashed", "respond"}
             /\ a.pc \in LifecyclePcs => a.changed = "yes")
    /\ [][C13_Step]_vars

C13_Witness ==
    \E a \in Hooks :
        /\ a.pc = "respond"
        /\ a.err = "runtime"
        /\ a.failed = "start"
        /\ a.residue
        /\ \E c \in Named : ~c.Running

\* C14: pullImage() returns true exactly when the image id that getImageId()
\* resolves for the configured ref after the pull differs from the id it
\* resolved before the pull; an absent image is a value of its own (absent
\* before and present after gives true, the same id twice gives false).
C14_Step ==
    \A a \in {x \in Activations : Consumed(x)} : \A b \in BagToSet(acts') :
        StepOf(a, b) =>
            /\ (a.pc = "pull_prev" /\ b.err = "none") =>
                  b.previousId = getImageId
            /\ (a.pc = "pull_cur" /\ b.err = "none") =>
                  /\ b.changed \in {"yes", "no"}
                  /\ b.changed = "yes" <=> getImageId # a.previousId
                  /\ (a.previousId = Undefined /\ getImageId # Undefined)
                        => b.changed = "yes"
            /\ b.changed \in {"yes", "no"} \ {a.changed} => a.pc = "pull_cur"

C14_SyncIffIdChanged == [][C14_Step]_vars

C14_Witness ==
    /\ nextCid = 3
    /\ \E a \in Activations :
          /\ a.who = "main"
          /\ a.pc = "stop_find"
          /\ a.changed = "yes"
          /\ builds = 1
          /\ getImageId = 1
    /\ \A i \in images : i.Id = 1 \/ i \in {OtherImage, OldImage}

\* C15: a pull that fails (docker.pull rejects, or the progress stream ends
\* with an error) makes pullImage() throw instead of returning false: the
\* pass is over with an error, it has issued and will issue no stop, remove,
\* create, start or garbage-collection call, and the callback of a webhook
\* pass that ended so carries state "error".
C15_PullFailed(a) == a.failed \in {"pull", "followProgress"}

C15_Aborted ==
    \A a \in Activations :
        C15_PullFailed(a) =>
            /\ a.err = "runtime"
            /\ a.pc = Catch(a)
            /\ a.pc \notin PassPcs
            /\ a.changed = "unknown"
            /\ a.pulled
            /\ ~a.residue

C15_Reported ==
    \A a \in Hooks :
        (C15_PullFailed(a) /\ Consumed(a)) =>
            /\ a.pc = "respond"
            /\ response'.req = a.req
            /\ response'.callback = "error"
            /\ UNCHANGED <<images, containers, nextCid>>

C15_PullFailureAborts == []C15_Aborted /\ [][C15_Reported]_vars

C15_Witness ==
    /\ \E a \in Hooks :
          /\ a.pc = "respond"
          /\ a.failed = "followProgress"
          /\ a.err = "runtime"
    /\ \E a \in Activations : a.who = "main" /\ a.pc = "main_done"

\* C16: for an image ref given without a tag the id that pullImage() resolves
\* before the pull is the id of the image tagged <name>:latest (so that a
\* pull that changes that id is seen as a change).  Stated for the startup
\* pass, during which the image store is touched by no other pass.
C16_LatestId ==
    LET found == {i \in images : Includes(i.RepoTags, PullRef)}
    IN  IF found = {} THEN Undefined
        ELSE (CHOOSE i \in found : \A j \in found : i.Id <= j.Id).Id

C16_UntaggedMeansLatest ==
    \A a \in Activations :
        (a.who = "main" /\ a.pc = "pull_pull") => a.previousId = C16_LatestId

\* C17: stopContainer() issues a stop only for a container with the
\* configured name that its inspect has just shown running; when no such
\* container is listed, or the one listed is shown stopped, it issues no
\* stop and returns without error (unless the listing or the inspect itself
\* is rejected by the runtime).
C17_Step ==
    \A a \in {x \in Activations : Consumed(x)} : \A b \in BagToSet(acts') :
        StepOf(a, b) =>
            /\ b.pc = "stop_stop" =>
                  /\ a.pc = "stop_inspect"
                  /\ \E c \in Named : c.Id = a.cid /\ c.Running
            /\ (\E c \in containers :
                   c.Running /\ [c EXCEPT !.Running = FALSE] \in containers')
                  => (a.pc = "stop_stop" /\ a.cid # Undefined)
            /\ (a.pc = "stop_find" /\ Named = {}) =>
                  /\ containers' = containers
                  /\ \/ b.pc = "rm_find" /\ b.err = "none"
                     \/ b.failed = "listContainers"
            /\ (a.pc = "stop_inspect"
                  /\ \E c \in Named : c.Id = a.cid /\ ~c.Running) =>
                  /\ containers' = containers
                  /\ \/ b.pc = "rm_find" /\ b.err = "none"
                     \/ b.failed = "inspect"

C17_StopOnlyIfRunning == [][C17_Step]_vars

C17_Witness ==
    \E a \in Activations :
        /\ a.pc = "rm_find"
        /\ a.err = "none"
        /\ ~a.residue
        /\ \E c \in Named : c.Id = a.cid /\ ~c.Running

\* C18: for every webhook POST that is handled exactly one POST is issued to
\* its callback_url; its state is "success" exactly when the repo name
\* matched and check() raised no error, and "error" otherwise; when the
\* delivery of the callback fails nothing is posted again, and neither the
\* HTTP response nor anything else of the agent changes.
C18_Answered ==
    /\ IsWebhookPost(response.req) =>
          /\ response.posts = 1
          /\ response.callback \in {"success", "error"}
          /\ response.callback = "success" =>
                response.req.repo_name = getImageName
    /\ ~IsWebhookPost(response.req) =>
          (response.posts = 0 /\ response.callback = "none")

C18_Step ==
    /\ \A a \in Hooks :
          Consumed(a) /\ a.pc = "respond" =>
              /\ response'.req = a.req
              /\ response'.posts = 1
              /\ response'.delivery = "sent"
              /\ response'.callback = "success" <=> a.err = "none"
              /\ response'.callback = "error" <=> a.err # "none"
    /\ (received' # received /\ IsWebhookPost(response'.req)
          /\ response' # response) =>
              /\ response'.req.repo_name # getImageName
              /\ response'.callback = "error"
              /\ response'.posts = 1
    /\ (response'.delivery = "failed" /\ response.delivery # "failed") =>
          /\ response' = [response EXCEPT !.delivery = "failed"]
          /\ UNCHANGED <<options, hash, port, images, containers, builds,
                         nextCid, listening, acts, received>>
    /\ (response' # response /\ response'.delivery # "failed") =>
          \/ received' # received
          \/ \E a \in Hooks : Consumed(a) /\ a.pc = "respond"

C18_OneCallback == []C18_Answered /\ [][C18_Step]_vars

C18_Witness ==
    /\ IsWebhookPost(response.req)
    /\ response.delivery = "failed"
    /\ response.callback = "success"
    /\ response.posts = 1
    /\ response.status = 204

\* C19: the webhook listener is bound only once main() is through the startup
\* pass and the step that makes sure the container exists, both without
\* error, and only when the restart list holds image-push: no webhook pass
\* overlaps the startup pass, and no webhook is received or handled when
\* image-push is not configured.
C19_ListenerAfterStartup ==
    /\ listening =>
          /\ Includes(options.restart, "image-push")
          /\ port = determineImagePort
          /\ \E a \in Activations : a.who = "main"
          /\ \A a \in Activations :
                a.who = "main" => (a.pc = "main_done" /\ a.err = "none")
    /\ (Hooks # {} \/ received > 0 \/ response # NoResponse \/ port # 0)
          => listening

C19_Witness ==
    /\ listening
    /\ \E a \in Hooks : a.pc \in LifecyclePcs
    /\ \E a \in Activations : a.who = "main" /\ a.pc = "main_done"

====
